---- MODULE Spec2Model ----
(***************************************************************************)
(* Verification model of the stavros.users application: the slug handling  *)
(* of Organization.save / Announcement.save over a table with a unique     *)
(* slug column, the Event.attendees relation used by join/leave, the user  *)
(* self-update and redirect views with their routes, the field constraints *)
(* of Contact, User, StudentProfile and Class, the foreign-key cascades,   *)
(* and the operations of migration 0004 of partneredu.users.               *)
(*                                                                         *)
(* Text is modelled as a sequence of one-character strings.  The token     *)
(* "e'" stands for the single character U+00E9 (e with acute accent).      *)
(***************************************************************************)
EXTENDS Integers, Sequences, FiniteSets, TLC

\* ------------------------------------------------------------------ bounds
\* Largest primary key a table hands out (rows per table).
MaxId == 2
\* Number of users and of events.
MaxUser == 2
MaxEvent == 2
\* Number of join/leave calls a behaviour makes.
MaxCalls == 3
\* Number of undisplayed notifications a session holds.
MaxMessages == 2
\* Latest reading of the wall clock.
MaxClock == 2
\* Rows a Contact, User or StudentProfile table holds.
MaxRows == 2
\* Rows created in a behaviour of the foreign-key cascades.
MaxCreates == 4

\* ------------------------------------------------------- program constants
\* phone_regex: \d{9,15}.
PhoneMinDigits == 9
PhoneMaxDigits == 15
\* Contact.phone_number: max_length=17.
PhoneMaxLength == 17
\* StudentProfile.student_id: max_length=9.
StudentIdMaxLength == 9
\* Class.grade_level: range(9, 13).
GradeRangeStart == 9
GradeRangeStop == 13

\* ------------------------------------------------------------ text helpers
RECURSIVE MapSeq(_, _)
\* Apply the character function f to every character of s.
MapSeq(f, s) ==
    IF s = <<>> THEN <<>> ELSE <<f[Head(s)]>> \o MapSeq(f, Tail(s))

\* The characters that occur in the names and titles the model submits.
Alphabet ==
    {"A", "I", "a", "c", "e", "i", "m", "n", "x", " ", "!", "-", "_", "'", "e'"}

\* The characters DISALLOWED_CHARS_PATTERN = [^-a-zA-Z0-9]+ keeps.
AllowedChars == {"A", "I", "a", "c", "e", "i", "m", "n", "x", "-"}

\* QUOTE_PATTERN: a quote becomes the separator before normalisation.
QuoteToDash == [c \in Alphabet |-> IF c = "'" THEN "-" ELSE c]

\* NFKD + unidecode: accented letters lose their accent, ASCII is kept.
Unidecode == [c \in Alphabet |-> IF c = "e'" THEN "e" ELSE c]

\* str.lower()
Lower ==
    [c \in Alphabet |-> CASE c = "A" -> "a" [] c = "I" -> "i" [] OTHER -> c]

\* Every character outside [-a-zA-Z0-9] becomes the separator.
Disallowed == [c \in Alphabet |-> IF c \in AllowedChars THEN c ELSE "-"]

RECURSIVE CollapseDashes(_)
\* DUPLICATE_DASH_PATTERN: a run of separators becomes one separator.
CollapseDashes(s) ==
    IF Len(s) < 2 THEN s
    ELSE IF Head(s) = "-" /\ Head(Tail(s)) = "-" THEN CollapseDashes(Tail(s))
    ELSE <<Head(s)>> \o CollapseDashes(Tail(s))

RECURSIVE StripLeft(_)
StripLeft(s) ==
    IF s # <<>> /\ Head(s) = "-" THEN StripLeft(Tail(s)) ELSE s

RECURSIVE StripRight(_)
StripRight(s) ==
    IF s # <<>> /\ s[Len(s)] = "-" THEN StripRight(SubSeq(s, 1, Len(s) - 1))
    ELSE s

\* str.strip("-")
StripDashes(s) == StripRight(StripLeft(s))

\* A slugify that forgets to lowercase.
slugifyKeepCase(text) ==
    StripDashes(CollapseDashes(MapSeq(Disallowed,
        MapSeq(Unidecode, MapSeq(QuoteToDash, text)))))

\* slugify(text) with its default arguments, as imported from the slugify
\* package: quotes to dashes, transliterate to ASCII, lowercase, replace
\* every run of other characters by one dash, strip dashes at both ends.
slugify(text) ==
    StripDashes(CollapseDashes(MapSeq(Disallowed,
        MapSeq(Lower, MapSeq(Unidecode, MapSeq(QuoteToDash, text))))))

\* ------------------------------------------------------------- the records
Kinds == {"Organization", "Announcement"}

\* The requests (each one holds one model instance in memory).
Requests == {"r1", "r2"}

\* Python's None for an attribute that holds text.
None == <<"None">>

AcmeInc == <<"A", "c", "m", "e", " ", "I", "n", "c">>
AcmeAlt == <<"a", "c", "m", "e", "_", "i", "n", "c", "!">>
Punct == <<"!", "!">>
Axe == <<"A", "x", "e'">>
Names == {AcmeInc, AcmeAlt, Punct, Axe}

\* The slug a caller may pass to the constructor (none, or one of its own).
CtorSlugs == {None, <<"x">>}

VARIABLES
    kind,       \* the model class whose table the behaviour follows
    table,      \* primary key -> stored row [name, slug] of that class
    nextId,     \* the next primary key of the table
    inst,       \* inst[r]: the model instance request r holds in memory
    pc,         \* pc[r]: "none", "idle", "saving" (inside save) or "done"
    outcome,    \* outcome[r]: result of r's last save
    attempt,    \* attempt[r]: how r's last save() call started
    firstSlug,  \* firstSlug[id]: the slug row id was inserted with
    clock       \* timezone.now(), read by date_posted when a row is inserted

slugVars == <<kind, table, nextId, inst, pc, outcome, attempt, firstSlug, clock>>

VARIABLES
    attendees,      \* rows [event, user] of the Event.attendees relation table
    prevAttendees,  \* the relation table before the last join/leave call
    calls,          \* the join/leave calls made so far: [op, user, event]
    evResponse      \* outcome of the last join/leave call

eventVars == <<attendees, prevAttendees, calls, evResponse>>

VARIABLES
    users,      \* users[pk]: the stored name of user pk
    messages,   \* messages[pk]: notifications queued in pk's session, not yet shown
    request,    \* the request being handled: [user, view, kwargs, object, stage]
    response    \* the last response: [status, location]

viewVars == <<users, messages, request, response>>

VARIABLES
    contactRows,  \* pk -> stored Contact row [phone_number, validated]
    contactLast,  \* the last write of a Contact: [id, value, path, outcome]
    userRows,     \* pk -> stored User row [email, name]
    userLast,     \* the last write of a User: [id, value, path, outcome]
    profileRows,  \* pk -> stored StudentProfile row [student_id]
    profileLast   \* the last write of a StudentProfile: [id, value, path, outcome]

fieldVars == <<contactRows, contactLast, userRows, userLast, profileRows, profileLast>>

VARIABLES
    db,          \* the stored rows [model, pk, fk] of the models tied by foreign keys
    nextPk,      \* nextPk[model]: the next primary key of the model's table
    lastDelete   \* the last delete() call: [model, pk, collected]

cascadeVars == <<db, nextPk, lastDelete>>

VARIABLES
    classRows,   \* pk -> stored Class row [grade_level, validated]
    classLast    \* the last write of a Class: [id, value, path, outcome]

classVars == <<classRows, classLast>>

VARIABLES
    applied,     \* how many operations of migration 0004 have been applied
    schema,      \* the fields <<model, field>> of the schema; "id" marks the model
    orgRows,     \* the rows of the organization table: [pk, before, cols]
    migrationError  \* why the migration stopped, "none" while it has not

migrationVars == <<applied, schema, orgRows, migrationError>>

schemaVars == <<classVars, migrationVars>>

dataVars == <<fieldVars, cascadeVars, schemaVars>>

appVars == <<slugVars, eventVars, viewVars>>

\* An Organization has no date_posted: its instances and rows keep 0 there,
\* which is also an Announcement's date_posted before its first save.
NoInstance == [id |-> 0, name |-> <<>>, slug |-> None, date |-> 0]
NoAttempt == [insert |-> FALSE, hadSlug |-> FALSE, free |-> FALSE, overlap |-> {}]

\* Organization and Announcement have the same save() and each its own
\* table with its own unique index on slug: a behaviour follows one class.
SlugInit ==
    /\ kind \in Kinds
    /\ table = <<>>
    /\ nextId = 1
    /\ inst = [r \in Requests |-> NoInstance]
    /\ pc = [r \in Requests |-> "none"]
    /\ outcome = [r \in Requests |-> "none"]
    /\ attempt = [r \in Requests |-> NoAttempt]
    /\ firstSlug = <<>>
    /\ clock = 1

\* Python truthiness: an id that is None (written 0 here) is falsy, and so
\* is a slug that is None or the empty string.
FalsyId(id) == id = 0
FalsySlug(s) == s = None \/ s = <<>>

\* A save that only computes the slug for a record with neither id nor slug.
SaveSlugBothMissing(i) ==
    IF FalsyId(i.id) /\ FalsySlug(i.slug)
    THEN [i EXCEPT !.slug = slugify(i.name)]
    ELSE i

\* A save that stores the name itself as the slug.
SaveSlugRawName(i) ==
    IF FalsyId(i.id) \/ FalsySlug(i.slug)
    THEN [i EXCEPT !.slug = i.name]
    ELSE i

\* Organization.save / Announcement.save before the call to super().save():
\*     if not self.id or not self.slug: self.slug = slugify(self.name)
\* (self.title for an Announcement; the instance keeps it in the field name).
SaveSlug(i) ==
    IF FalsyId(i.id) \/ FalsySlug(i.slug)
    THEN [i EXCEPT !.slug = slugify(i.name)]
    ELSE i

\* A slug column without its unique index.
UniqueViolationNever(rows, id, slug) == FALSE

\* A uniqueness check made for new rows only, not for updated ones.
UniqueViolationInsertOnly(rows, id, slug) ==
    /\ id = 0 /\ slug # None
    /\ \E j \in DOMAIN rows : rows[j].slug = slug

\* A unique index that reads the empty string as NULL.
UniqueViolationEmptyAsNull(rows, id, slug) ==
    /\ slug # None /\ slug # <<>>
    /\ \E j \in DOMAIN rows : j # id /\ rows[j].slug = slug

\* SlugField(unique=True, null=True): the unique index of the slug column
\* rejects a row whose slug another row holds; NULLs never collide.
UniqueViolation(rows, id, slug) ==
    /\ slug # None
    /\ \E j \in DOMAIN rows : j # id /\ rows[j].slug = slug

\* The ids of the rows that hold slug s.
RowsWithSlug(s) == {j \in DOMAIN table : table[j].slug = s}

\* Organization(name=n, slug=s) / Announcement(title=n, slug=s): a new
\* instance, not yet stored.
New(r, n, s) ==
    /\ pc[r] \in {"none", "idle", "done"}
    /\ inst' = [inst EXCEPT ![r] = [id |-> 0, name |-> n, slug |-> s, date |-> 0]]
    /\ pc' = [pc EXCEPT ![r] = "idle"]
    /\ outcome' = [outcome EXCEPT ![r] = "none"]
    /\ attempt' = [attempt EXCEPT ![r] = NoAttempt]
    /\ UNCHANGED <<kind, table, nextId, firstSlug, clock>>
    /\ UNCHANGED <<eventVars, viewVars, dataVars>>

\* objects.get(pk=id): load a stored row into memory.
Load(r, id) ==
    /\ pc[r] \in {"none", "idle", "done"}
    /\ id \in DOMAIN table
    /\ inst' = [inst EXCEPT ![r] =
                   [id |-> id, name |-> table[id].name, slug |-> table[id].slug,
                    date |-> table[id].date]]
    /\ pc' = [pc EXCEPT ![r] = "idle"]
    /\ outcome' = [outcome EXCEPT ![r] = "none"]
    /\ attempt' = [attempt EXCEPT ![r] = NoAttempt]
    /\ UNCHANGED <<kind, table, nextId, firstSlug, clock>>
    /\ UNCHANGED <<eventVars, viewVars, dataVars>>

\* instance.name = n (instance.title = n for an Announcement).
Rename(r, n) ==
    /\ pc[r] \in {"idle", "done"}
    /\ n # inst[r].name
    /\ inst' = [inst EXCEPT ![r].name = n]
    /\ UNCHANGED <<kind, table, nextId, pc, outcome, attempt, firstSlug, clock>>
    /\ UNCHANGED <<eventVars, viewVars, dataVars>>

\* save() up to the call of super().save(): the slug guard and assignment.
SaveBegin(r) ==
    /\ pc[r] \in {"idle", "done"}
    /\ LET i == SaveSlug(inst[r])
           others == {q \in Requests \ {r} : pc[q] = "saving"}
       IN /\ inst' = [inst EXCEPT ![r] = i]
          /\ attempt' =
               [q \in Requests |->
                  IF q = r
                  THEN [insert |-> FalsyId(inst[r].id),
                        hadSlug |-> ~FalsySlug(inst[r].slug),
                        free |-> RowsWithSlug(i.slug) = {},
                        overlap |-> others]
                  ELSE IF q \in others
                  THEN [attempt[q] EXCEPT !.overlap = @ \cup {r}]
                  ELSE attempt[q]]
    /\ pc' = [pc EXCEPT ![r] = "saving"]
    /\ outcome' = [outcome EXCEPT ![r] = "none"]
    /\ UNCHANGED <<kind, table, nextId, firstSlug, clock>>
    /\ UNCHANGED <<eventVars, viewVars, dataVars>>

\* A rejected statement that has already written the name column.
RolledBackNameKept(rows, i) ==
    IF i.id \in DOMAIN rows THEN [rows EXCEPT ![i.id].name = i.name] ELSE rows

\* The table after the INSERT or UPDATE of instance i was rejected: the
\* statement is rolled back as a whole.
RolledBack(rows, i) == rows

\* A DateTimeField(auto_now_add=True) that takes the time of every save.
DatePostedAutoNow(i, now) == now

\* pre_save of date_posted = DateTimeField(auto_now_add=True): the current
\* time when the row is inserted, the instance's own value afterwards.
\* (Organization has no such field.)
DatePosted(i, now) == IF FalsyId(i.id) THEN now ELSE i.date

\* The row an instance is stored as.
RowOf(i) ==
    [name |-> i.name, slug |-> i.slug,
     date |-> IF kind = "Announcement" THEN DatePosted(i, clock) ELSE 0]

\* super().save() raising IntegrityError: the statement is rolled back, the
\* table is as before and the instance keeps what save() assigned in memory.
SaveRejected(r) ==
    /\ pc[r] = "saving"
    /\ UniqueViolation(table, inst[r].id, inst[r].slug)
    /\ table' = RolledBack(table, inst[r])
    /\ pc' = [pc EXCEPT ![r] = "done"]
    /\ outcome' = [outcome EXCEPT ![r] = "IntegrityError"]
    /\ UNCHANGED <<kind, nextId, inst, attempt, firstSlug, clock>>
    /\ UNCHANGED <<eventVars, viewVars, dataVars>>

\* super().save() of an instance without id: INSERT, the id is assigned.
SaveInsert(r) ==
    /\ pc[r] = "saving"
    /\ FalsyId(inst[r].id)
    /\ ~UniqueViolation(table, inst[r].id, inst[r].slug)
    /\ nextId <= MaxId
    /\ LET row == RowOf(inst[r])
       IN /\ table' = table \o <<row>>
          /\ firstSlug' = firstSlug \o <<row.slug>>
          /\ inst' = [inst EXCEPT ![r].id = nextId, ![r].date = row.date]
    /\ nextId' = nextId + 1
    /\ pc' = [pc EXCEPT ![r] = "done"]
    /\ outcome' = [outcome EXCEPT ![r] = "ok"]
    /\ UNCHANGED <<kind, attempt, clock>>
    /\ UNCHANGED <<eventVars, viewVars, dataVars>>

\* super().save() of an instance with an id: UPDATE of its row.
SaveUpdate(r) ==
    /\ pc[r] = "saving"
    /\ ~FalsyId(inst[r].id)
    /\ ~UniqueViolation(table, inst[r].id, inst[r].slug)
    /\ LET row == RowOf(inst[r])
       IN /\ table' = [table EXCEPT ![inst[r].id] = row]
          /\ inst' = [inst EXCEPT ![r].date = row.date]
    /\ pc' = [pc EXCEPT ![r] = "done"]
    /\ outcome' = [outcome EXCEPT ![r] = "ok"]
    /\ UNCHANGED <<kind, nextId, attempt, firstSlug, clock>>
    /\ UNCHANGED <<eventVars, viewVars, dataVars>>

\* A model form is submitted for r's instance with its required name
\* (title) left blank: is_valid() fails with a field error and save() is
\* not called.
FormInvalid(r) ==
    /\ pc[r] \in {"idle", "done"}
    /\ pc' = [pc EXCEPT ![r] = "done"]
    /\ outcome' = [outcome EXCEPT ![r] = "ValidationError"]
    /\ attempt' = [attempt EXCEPT ![r] = NoAttempt]
    /\ UNCHANGED <<kind, table, nextId, inst, firstSlug, clock>>
    /\ UNCHANGED <<eventVars, viewVars, dataVars>>

\* Time passes.  Only an Announcement reads the clock, and its value matters
\* only against the stored dates: a tick that no stored date could tell from
\* the one before is left out.
Tick ==
    /\ kind = "Announcement"
    /\ clock < MaxClock
    /\ \E id \in DOMAIN table : table[id].date = clock
    /\ clock' = clock + 1
    /\ UNCHANGED <<kind, table, nextId, inst, pc, outcome, attempt, firstSlug>>
    /\ UNCHANGED <<eventVars, viewVars, dataVars>>

\* ------------------------------------------------------- events: join/leave
UserIds == 1..MaxUser
EventIds == 1..MaxEvent

EventInit ==
    /\ attendees = <<>>
    /\ prevAttendees = <<>>
    /\ calls = <<>>
    /\ evResponse = "none"

\* How many rows of the relation table link user u to event e.
Membership(rows, e, u) ==
    Cardinality({i \in DOMAIN rows : rows[i] = [event |-> e, user |-> u]})

\* An add that inserts a row even when the user is already linked.
AttendeesAddAlways(rows, e, u) == Append(rows, [event |-> e, user |-> u])

\* attendees.add(user) on the ManyToManyField: a row is inserted only when
\* the pair is not in the relation table yet.
AttendeesAdd(rows, e, u) ==
    IF Membership(rows, e, u) > 0 THEN rows
    ELSE Append(rows, [event |-> e, user |-> u])

\* A remove that forgets to filter on the user.
AttendeesRemoveWholeEvent(rows, e, u) ==
    SelectSeq(rows, LAMBDA row : row.event # e)

\* attendees.remove(user): the rows linking the pair are deleted.
AttendeesRemove(rows, e, u) ==
    SelectSeq(rows, LAMBDA row : row # [event |-> e, user |-> u])

\* POST event/join/<int:pk>/ by user u.
join_event(u, e) ==
    /\ Len(calls) < MaxCalls
    /\ attendees' = AttendeesAdd(attendees, e, u)
    /\ prevAttendees' = attendees
    /\ calls' = Append(calls, [op |-> "join", user |-> u, event |-> e])
    /\ evResponse' = "ok"
    /\ UNCHANGED <<slugVars, viewVars, dataVars>>

\* POST event/leave/<int:pk>/ by user u.
leave_event(u, e) ==
    /\ Len(calls) < MaxCalls
    /\ attendees' = AttendeesRemove(attendees, e, u)
    /\ prevAttendees' = attendees
    /\ calls' = Append(calls, [op |-> "leave", user |-> u, event |-> e])
    /\ evResponse' = "ok"
    /\ UNCHANGED <<slugVars, viewVars, dataVars>>

EventNext ==
    \/ \E u \in UserIds, e \in EventIds : join_event(u, e)
    \/ \E u \in UserIds, e \in EventIds : leave_event(u, e)

\* ------------------------------------------------- routes and the update view
IntParam == "<int:pk>"
SlugParam == "<slug:slug>"

\* The text of a primary key inside a URL.
PkText(id) == ToString(id)

\* What the int converter accepts among the segments the model sends.
IntTexts == {PkText(id) : id \in 1..(MaxUser + 1)}

\* A URL or a route is the sequence of its "/"-separated segments after the
\* leading slash; a trailing slash leaves a last empty segment.
UpdateRouteWithPk == <<"~update", IntParam, "">>

\* urlpatterns with the update route taking the id of the user to edit.
urlpatternsUpdateByPk ==
    << [name |-> "redirect", route |-> <<"~redirect", "">>],
       [name |-> "update", route |-> UpdateRouteWithPk],
       [name |-> "detail", route |-> <<"users", IntParam, "">>],
       [name |-> "dashboard", route |-> <<"dashboard">>],
       [name |-> "event_list", route |-> <<"events", "">>],
       [name |-> "event_detail", route |-> <<"events", IntParam, "">>],
       [name |-> "organization_list", route |-> <<"organizations", "">>],
       [name |-> "organization_detail", route |-> <<"organizations", SlugParam, "">>],
       [name |-> "announcement_list", route |-> <<"recent", "">>],
       [name |-> "announcement_detail", route |-> <<"announcement", SlugParam, "">>],
       [name |-> "map", route |-> <<"map">>],
       [name |-> "event_join", route |-> <<"event", "join", IntParam, "">>],
       [name |-> "event_leave", route |-> <<"event", "leave", IntParam, "">>] >>

\* urlpatterns of the users app; the include() of the api sub-routes, which
\* the model sends no URL to, is left out.
urlpatterns ==
    << [name |-> "redirect", route |-> <<"~redirect", "">>],
       [name |-> "update", route |-> <<"~update", "">>],
       [name |-> "detail", route |-> <<"users", IntParam, "">>],
       [name |-> "dashboard", route |-> <<"dashboard">>],
       [name |-> "event_list", route |-> <<"events", "">>],
       [name |-> "event_detail", route |-> <<"events", IntParam, "">>],
       [name |-> "organization_list", route |-> <<"organizations", "">>],
       [name |-> "organization_detail", route |-> <<"organizations", SlugParam, "">>],
       [name |-> "announcement_list", route |-> <<"recent", "">>],
       [name |-> "announcement_detail", route |-> <<"announcement", SlugParam, "">>],
       [name |-> "map", route |-> <<"map">>],
       [name |-> "event_join", route |-> <<"event", "join", IntParam, "">>],
       [name |-> "event_leave", route |-> <<"event", "leave", IntParam, "">>] >>

\* The keyword a parameter segment binds.
ParamName(seg) == IF seg = IntParam THEN "pk" ELSE "slug"

\* Does the route match the URL?  (No URL of the model has a slug segment.)
Matches(route, url) ==
    /\ Len(route) = Len(url)
    /\ \A i \in DOMAIN route :
          CASE route[i] = IntParam -> url[i] \in IntTexts
            [] route[i] = SlugParam -> FALSE
            [] OTHER -> route[i] = url[i]

\* resolve(url): the first matching pattern and the keyword arguments it
\* captures; name "404" when none matches.
Resolve(url) ==
    LET hits == {i \in DOMAIN urlpatterns : Matches(urlpatterns[i].route, url)}
    IN IF hits = {} THEN [name |-> "404", kwargs |-> {}]
       ELSE LET i == CHOOSE h \in hits : \A g \in hits : h <= g
                route == urlpatterns[i].route
            IN [name |-> urlpatterns[i].name,
                kwargs |-> {<<ParamName(route[j]), url[j]>> :
                              j \in {x \in DOMAIN route :
                                       route[x] \in {IntParam, SlugParam}}}]

\* reverse(name, kwargs={"pk": pk}): the URL of the named route.
Reverse(name, pk) ==
    LET i == CHOOSE h \in DOMAIN urlpatterns : urlpatterns[h].name = name
        route == urlpatterns[i].route
    IN [j \in DOMAIN route |-> IF route[j] = IntParam THEN PkText(pk) ELSE route[j]]

\* A get_absolute_url that reverses the event detail route.
get_absolute_url_event(id) == Reverse("event_detail", id)

\* User.get_absolute_url: reverse("users:detail", kwargs={"pk": self.id}).
get_absolute_url(id) == Reverse("detail", id)

UserNames == {"Ann", "Bob"}

NoRequest == [user |-> 0, view |-> "", kwargs |-> {}, object |-> 0, stage |-> "idle"]
NoResponse == [status |-> "none", location |-> <<>>]

ViewInit ==
    /\ users = [id \in UserIds |-> "Ann"]
    /\ messages = [id \in UserIds |-> <<>>]
    /\ request = NoRequest
    /\ response = NoResponse

\* The URLs the logged-in users ask for.
Urls ==
    {<<"~update", "">>, <<"~redirect", "">>, <<"dashboard">>}
        \cup {<<"~update", PkText(id), "">> : id \in UserIds}
        \cup {<<"users", PkText(id), "">> : id \in UserIds}

\* Another notification text.
SuccessMessageOther == "Saved"

\* success_message of the update view.
SuccessMessage == "Information successfully updated"

\* UserUpdateView.get_object: the requesting user, whatever the URL carries.
get_object(req) == req.user

\* UserUpdateView.get_success_url: the requesting user's detail page.
get_success_url(req) == get_absolute_url(req.user)

\* A redirect view that always sends to the first user's page.
get_redirect_url_first(req) == get_absolute_url(1)

\* UserRedirectView.get_redirect_url: the requesting user's detail page.
get_redirect_url(req) == get_absolute_url(req.user)

\* A request of logged-in user u for url arrives and is routed.  The update
\* view loads its object and shows the form, the redirect view answers with
\* a redirect; every other view answers at once.
Dispatch(u, url) ==
    /\ request.stage \in {"idle", "done"}
    /\ LET m == Resolve(url)
           req == [user |-> u, view |-> m.name, kwargs |-> m.kwargs,
                   object |-> 0, stage |-> "done"]
       IN IF m.name = "update"
          THEN /\ request' = [req EXCEPT !.object = get_object(req), !.stage = "form"]
               /\ response' = NoResponse
          ELSE /\ request' = req
               /\ response' =
                    IF m.name = "redirect"
                    THEN [status |-> "302", location |-> get_redirect_url(req)]
                    ELSE [status |-> IF m.name = "404" THEN "404" ELSE "200",
                          location |-> <<>>]
    /\ UNCHANGED <<users, messages>>
    /\ UNCHANGED <<slugVars, eventVars, dataVars>>

\* form_valid: the form saves the loaded object, one success notification is
\* queued and the response redirects to get_success_url().
form_valid(name) ==
    /\ request.stage = "form"
    /\ Len(messages[request.user]) < MaxMessages
    /\ users' = [users EXCEPT ![request.object] = name]
    /\ messages' = [messages EXCEPT ![request.user] = Append(@, SuccessMessage)]
    /\ response' = [status |-> "302", location |-> get_success_url(request)]
    /\ request' = [request EXCEPT !.stage = "done"]
    /\ UNCHANGED <<slugVars, eventVars, dataVars>>

\* form_invalid: the form is shown again with its errors; nothing is saved.
form_invalid ==
    /\ request.stage = "form"
    /\ response' = [status |-> "200", location |-> <<>>]
    /\ request' = [request EXCEPT !.stage = "done"]
    /\ UNCHANGED <<users, messages>>
    /\ UNCHANGED <<slugVars, eventVars, dataVars>>

\* A rendered page iterates over the user's queued notifications, which
\* empties the queue.
show_messages(u) ==
    /\ request.stage \in {"idle", "done"}
    /\ messages[u] # <<>>
    /\ messages' = [messages EXCEPT ![u] = <<>>]
    /\ UNCHANGED <<users, request, response>>
    /\ UNCHANGED <<slugVars, eventVars, dataVars>>

ViewNext ==
    \/ \E u \in UserIds, url \in Urls : Dispatch(u, url)
    \/ \E name \in UserNames : form_valid(name)
    \/ form_invalid
    \/ \E u \in UserIds : show_messages(u)

\* ---------------------------------------------------------- field constraints
\* The text of n characters c.
Rep(c, n) == [i \in 1..n |-> c]

Digits == {"0", "1", "2", "3", "4", "5", "6", "7", "8", "9"}

\* Store a row: a new one at the end of the table (id 0), or over row id.
Put(rows, id, row) == IF id = 0 THEN Append(rows, row) ELSE [rows EXCEPT ![id] = row]

NoWrite == [id |-> 0, value |-> <<>>, path |-> "none", outcome |-> "none"]

FieldInit ==
    /\ contactRows = <<>>
    /\ contactLast = NoWrite
    /\ userRows = <<>>
    /\ userLast = NoWrite
    /\ profileRows = <<>>
    /\ profileLast = NoWrite

\* The phone numbers submitted: blank, the shortest and the longest accepted
\* ones, and ones that are too short, too long or not digits.
Phones ==
    {<<>>,
     Rep("5", PhoneMinDigits),
     <<"+", "1">> \o Rep("5", PhoneMaxDigits),
     <<"1">> \o Rep("5", PhoneMaxDigits),
     Rep("5", PhoneMinDigits - 1),
     Rep("5", PhoneMaxDigits + 1),
     <<"a", "b", "c">>}

\* phone_regex, ^\+?1?\d{9,15}$ : an optional plus sign, an optional 1, then
\* PhoneMinDigits to PhoneMaxDigits digits and nothing else.
phone_regex(s) ==
    \E plus \in {0, 1}, one \in {0, 1} :
        /\ plus + one <= Len(s)
        /\ plus = 1 => s[1] = "+"
        /\ one = 1 => s[plus + 1] = "1"
        /\ LET digits == SubSeq(s, plus + one + 1, Len(s))
           IN /\ Len(digits) \in PhoneMinDigits..PhoneMaxDigits
              /\ \A i \in DOMAIN digits : digits[i] \in Digits

\* A field validation that checks the length only.
PhoneInvalidLengthOnly(s) == s # <<>> /\ Len(s) > PhoneMaxLength

\* Field validation of phone_number as a form runs it (full_clean): a blank
\* value passes (blank=True), any other one must fit max_length and match
\* phone_regex.
PhoneInvalid(s) == s # <<>> /\ (Len(s) > PhoneMaxLength \/ ~phone_regex(s))

\* A Contact form is submitted, for a new Contact (id 0) or an existing one:
\* the value is validated and, when valid, saved.
ContactFormSubmit(id, p) ==
    /\ id = 0 => Len(contactRows) < MaxRows
    /\ IF PhoneInvalid(p)
       THEN /\ contactLast' = [id |-> id, value |-> p, path |-> "form",
                               outcome |-> "ValidationError"]
            /\ UNCHANGED contactRows
       ELSE /\ contactLast' = [id |-> id, value |-> p, path |-> "form",
                               outcome |-> "saved"]
            /\ contactRows' = Put(contactRows, id,
                                  [phone_number |-> p, validated |-> TRUE])
    /\ UNCHANGED <<userRows, userLast, profileRows, profileLast>>
    /\ UNCHANGED <<appVars, cascadeVars, schemaVars>>

\* Contact(...).save() or an assignment followed by save(): Model.save runs no
\* validator; the value is written as it is.
ContactSave(id, p) ==
    /\ id = 0 => Len(contactRows) < MaxRows
    /\ contactLast' = [id |-> id, value |-> p, path |-> "save", outcome |-> "saved"]
    /\ contactRows' = Put(contactRows, id, [phone_number |-> p, validated |-> FALSE])
    /\ UNCHANGED <<userRows, userLast, profileRows, profileLast>>
    /\ UNCHANGED <<appVars, cascadeVars, schemaVars>>

ContactNext ==
    \/ \E id \in 0..Len(contactRows), p \in Phones : ContactFormSubmit(id, p)
    \/ \E id \in 0..Len(contactRows), p \in Phones : ContactSave(id, p)

Emails == {"a@x.org", "b@x.org", "c@x.org"}

\* A unique index on email that is consulted for new rows only.
EmailTakenInsertOnly(rows, id, email) ==
    id = 0 /\ \E i \in DOMAIN rows : rows[i].email = email

\* The unique index on User.email: does a row other than id hold the email?
EmailTaken(rows, id, email) ==
    \E i \in DOMAIN rows : i # id /\ rows[i].email = email

\* User(...).save(): an insert (id 0) or an update of row id; the unique index
\* rejects the statement with IntegrityError and nothing is written.
UserSave(id, email, name) ==
    /\ id = 0 => Len(userRows) < MaxRows
    /\ IF EmailTaken(userRows, id, email)
       THEN /\ userLast' = [id |-> id, value |-> email, path |-> "save",
                            outcome |-> "IntegrityError"]
            /\ UNCHANGED userRows
       ELSE /\ userLast' = [id |-> id, value |-> email, path |-> "save",
                            outcome |-> "saved"]
            /\ userRows' = Put(userRows, id, [email |-> email, name |-> name])
    /\ UNCHANGED <<contactRows, contactLast, profileRows, profileLast>>
    /\ UNCHANGED <<appVars, cascadeVars, schemaVars>>

UserCreate(email, name) == UserSave(0, email, name)

UserUpdate(id, email, name) == id # 0 /\ UserSave(id, email, name)

UserNext ==
    \/ \E email \in Emails, name \in UserNames : UserCreate(email, name)
    \/ \E id \in DOMAIN userRows, email \in Emails, name \in UserNames :
          UserUpdate(id, email, name)

\* The student ids submitted: two of full length, a short one and one that is
\* one character too long.
StudentIds ==
    {Rep("1", StudentIdMaxLength), Rep("2", StudentIdMaxLength),
     <<"1", "2", "3">>, Rep("1", StudentIdMaxLength + 1)}

\* The unique index on StudentProfile.student_id.
StudentIdTaken(rows, id, sid) ==
    \E i \in DOMAIN rows : i # id /\ rows[i].student_id = sid

\* A StudentProfile form is submitted: max_length and uniqueness are
\* validated, then the row is saved.
ProfileFormSubmit(id, sid) ==
    /\ id = 0 => Len(profileRows) < MaxRows
    /\ IF Len(sid) > StudentIdMaxLength \/ StudentIdTaken(profileRows, id, sid)
       THEN /\ profileLast' = [id |-> id, value |-> sid, path |-> "form",
                               outcome |-> "ValidationError"]
            /\ UNCHANGED profileRows
       ELSE /\ profileLast' = [id |-> id, value |-> sid, path |-> "form",
                               outcome |-> "saved"]
            /\ profileRows' = Put(profileRows, id, [student_id |-> sid])
    /\ UNCHANGED <<contactRows, contactLast, userRows, userLast>>
    /\ UNCHANGED <<appVars, cascadeVars, schemaVars>>

\* StudentProfile(...).save(): the unique index rejects a duplicate.  A value
\* longer than the column is rejected by a database that enforces varchar
\* lengths and stored by one that does not.
ProfileSave(id, sid) ==
    /\ id = 0 => Len(profileRows) < MaxRows
    /\ \/ /\ StudentIdTaken(profileRows, id, sid)
          /\ profileLast' = [id |-> id, value |-> sid, path |-> "save",
                             outcome |-> "IntegrityError"]
          /\ UNCHANGED profileRows
       \/ /\ ~StudentIdTaken(profileRows, id, sid)
          /\ Len(sid) > StudentIdMaxLength
          /\ profileLast' = [id |-> id, value |-> sid, path |-> "save",
                             outcome |-> "DataError"]
          /\ UNCHANGED profileRows
       \/ /\ ~StudentIdTaken(profileRows, id, sid)
          /\ profileLast' = [id |-> id, value |-> sid, path |-> "save",
                             outcome |-> "saved"]
          /\ profileRows' = Put(profileRows, id, [student_id |-> sid])
    /\ UNCHANGED <<contactRows, contactLast, userRows, userLast>>
    /\ UNCHANGED <<appVars, cascadeVars, schemaVars>>

ProfileNext ==
    \/ \E id \in 0..Len(profileRows), sid \in StudentIds : ProfileFormSubmit(id, sid)
    \/ \E id \in 0..Len(profileRows), sid \in StudentIds : ProfileSave(id, sid)

\* ------------------------------------------------------ foreign-key cascades
Models ==
    {"User", "Organization", "Class", "StudentProfile", "Contact",
     "Announcement", "Event"}

\* The ForeignKey fields of the models; every one is declared on_delete=CASCADE.
ForeignKeys ==
    {[model |-> "Class", field |-> "teacher", to |-> "User", null |-> FALSE],
     [model |-> "StudentProfile", field |-> "user", to |-> "User", null |-> FALSE],
     [model |-> "StudentProfile", field |-> "guidance_counselor", to |-> "User",
      null |-> TRUE],
     [model |-> "StudentProfile", field |-> "parental_contact", to |-> "Contact",
      null |-> TRUE],
     [model |-> "Contact", field |-> "user", to |-> "User", null |-> FALSE],
     [model |-> "Announcement", field |-> "organization", to |-> "Organization",
      null |-> FALSE],
     [model |-> "Event", field |-> "organization", to |-> "Organization",
      null |-> FALSE]}

KeysOf(m) == {k \in ForeignKeys : k.model = m}

\* The value of foreign key field f of a row; 0 is NULL.
Ref(row, f) ==
    IF \E p \in row.fk : p[1] = f THEN (CHOOSE p \in row.fk : p[1] = f)[2] ELSE 0

NoDelete == [model |-> "", pk |-> 0, collected |-> {}]

CascadeInit ==
    /\ db = {}
    /\ nextPk = [m \in Models |-> 1]
    /\ lastDelete = NoDelete

RECURSIVE SumPk(_)
SumPk(S) == IF S = {} THEN 0
            ELSE LET m == CHOOSE x \in S : TRUE IN nextPk[m] - 1 + SumPk(S \ {m})

\* Rows created so far.
Created == SumPk(Models)

\* Model.objects.create: the row gets the next primary key; a foreign key
\* names an existing row of its target table, a nullable one may be NULL.
Create(m, f) ==
    /\ Created < MaxCreates
    /\ \A k \in KeysOf(m) :
          \/ k.null /\ f[k.field] = 0
          \/ \E t \in db : t.model = k.to /\ t.pk = f[k.field]
    /\ db' = db \cup {[model |-> m, pk |-> nextPk[m],
                       fk |-> {<<k.field, f[k.field]>> : k \in KeysOf(m)}]}
    /\ nextPk' = [nextPk EXCEPT ![m] = @ + 1]
    /\ UNCHANGED lastDelete
    /\ UNCHANGED <<appVars, fieldVars, schemaVars>>

\* The rows that go only when a required foreign key of theirs names the target.
ReferrersRequiredOnly(rows, target) ==
    {r \in rows : \E k \in KeysOf(r.model) :
        ~k.null /\ k.to = target.model /\ <<k.field, target.pk>> \in r.fk}

\* The rows with a CASCADE foreign key that names the target row.
Referrers(rows, target) ==
    {r \in rows : \E k \in KeysOf(r.model) :
        k.to = target.model /\ <<k.field, target.pk>> \in r.fk}

RECURSIVE Closure(_, _)
Closure(rows, S) ==
    LET more == S \cup UNION {Referrers(rows, t) : t \in S}
    IN IF more = S THEN S ELSE Closure(rows, more)

\* A collection that stops at the rows naming the deleted object itself.
CollectDirectOnly(rows, obj) == {obj} \cup Referrers(rows, obj)

\* Collector.collect: the object and, transitively, every row that reaches it
\* through CASCADE foreign keys.
Collect(rows, obj) == Closure(rows, {obj})

\* obj.delete(): the collected rows are deleted; no other row is touched.
Delete(obj) ==
    /\ obj \in db
    /\ db' = db \ Collect(db, obj)
    /\ lastDelete' = [model |-> obj.model, pk |-> obj.pk, collected |-> db \ db']
    /\ UNCHANGED nextPk
    /\ UNCHANGED <<appVars, fieldVars, schemaVars>>

CascadeNext ==
    \/ \E m \in Models :
          \E f \in [{k.field : k \in KeysOf(m)} -> 0..MaxCreates] : Create(m, f)
    \/ \E obj \in db : Delete(obj)

\* ------------------------------------------------------ Class.grade_level
\* A range that includes its stop value.
rangeInclusive(start, stop) == start..stop

\* range(start, stop): the integers from start up to, not including, stop.
range(start, stop) == start..(stop - 1)

\* The values of choices=[(i, i) for i in range(9, 13)].
GradeChoices == range(GradeRangeStart, GradeRangeStop)

\* The grade levels submitted: the choices and one value on either side.
Grades == (GradeRangeStart - 1)..GradeRangeStop

ClassInit ==
    /\ classRows = <<>>
    /\ classLast = [id |-> 0, value |-> 0, path |-> "none", outcome |-> "none"]

\* A Class form is submitted: a value outside the choices is a validation
\* error; a valid one is saved.
ClassFormSubmit(id, g) ==
    /\ id = 0 => Len(classRows) < MaxRows
    /\ IF g \notin GradeChoices
       THEN /\ classLast' = [id |-> id, value |-> g, path |-> "form",
                             outcome |-> "ValidationError"]
            /\ UNCHANGED classRows
       ELSE /\ classLast' = [id |-> id, value |-> g, path |-> "form",
                             outcome |-> "saved"]
            /\ classRows' = Put(classRows, id, [grade_level |-> g, validated |-> TRUE])
    /\ UNCHANGED migrationVars
    /\ UNCHANGED <<appVars, fieldVars, cascadeVars>>

\* Class(...).save(): choices are not checked by Model.save nor by the
\* integer column; the value is written as it is.
ClassSave(id, g) ==
    /\ id = 0 => Len(classRows) < MaxRows
    /\ classLast' = [id |-> id, value |-> g, path |-> "save", outcome |-> "saved"]
    /\ classRows' = Put(classRows, id, [grade_level |-> g, validated |-> FALSE])
    /\ UNCHANGED migrationVars
    /\ UNCHANGED <<appVars, fieldVars, cascadeVars>>

ClassNext ==
    \/ \E id \in 0..Len(classRows), g \in Grades : ClassFormSubmit(id, g)
    \/ \E id \in 0..Len(classRows), g \in Grades : ClassSave(id, g)

\* ------------------------------------------------------------ migration 0004
\* A field of the schema: its model, its name and the model a relation
\* points to ("" for a plain column).
Field(m, f, to) == [model |-> m, field |-> f, to |-> to]

HasModel(sch, m) == \E f \in sch : f.model = m /\ f.field = "id"

HasField(sch, m, n) == \E f \in sch : f.model = m /\ f.field = n

\* The schema migration 0003 leaves: the models and fields that the
\* operations of 0004 rename, remove, alter or point to.
SchemaAfter0003 ==
    {Field("user", "id", ""), Field("tag", "id", ""),
     Field("contact", "id", ""), Field("contact", "name", ""),
     Field("contact", "event_type", ""), Field("contact", "position", ""),
     Field("contact", "resources", ""), Field("contact", "industry", ""),
     Field("organization", "id", ""), Field("organization", "name", ""),
     Field("organization", "industry", ""), Field("organization", "resources", "")}

\* The operations of a migration.  fields: the <<name, to>> pairs a
\* CreateModel declares; to: the target of an added relation; column and
\* default: whether AddField adds a column, and the value it fills in.
CreateModel(m, fields) ==
    [op |-> "CreateModel", model |-> m, name |-> "", new |-> "", to |-> "",
     fields |-> fields, column |-> FALSE, default |-> ""]

RenameField(m, old, new) ==
    [op |-> "RenameField", model |-> m, name |-> old, new |-> new, to |-> "",
     fields |-> {}, column |-> FALSE, default |-> ""]

RemoveField(m, n) ==
    [op |-> "RemoveField", model |-> m, name |-> n, new |-> "", to |-> "",
     fields |-> {}, column |-> FALSE, default |-> ""]

AddField(m, n, to, column, default) ==
    [op |-> "AddField", model |-> m, name |-> n, new |-> "", to |-> to,
     fields |-> {}, column |-> column, default |-> default]

AlterField(m, n) ==
    [op |-> "AlterField", model |-> m, name |-> n, new |-> "", to |-> "",
     fields |-> {}, column |-> FALSE, default |-> ""]

CreateClass ==
    CreateModel("class", {<<"id", "">>, <<"name", "">>, <<"subject", "">>,
                          <<"grade_level", "">>})

CreateStudentProfile ==
    CreateModel("studentprofile",
                {<<"id", "">>, <<"birth_date", "">>, <<"graduating_year", "">>,
                 <<"student_id", "">>, <<"notes", "">>,
                 <<"classes_taken", "class">>, <<"guidance_counselor", "user">>,
                 <<"parental_contact", "contact">>, <<"user", "user">>})

CreateResource ==
    CreateModel("resource", {<<"id", "">>, <<"title", "">>,
                             <<"additional_info", "">>, <<"link", "">>,
                             <<"tags", "tag">>})

\* AddField organization.category: default="startup".
AddCategory == AddField("organization", "category", "", TRUE, "startup")

AddClassStudents == AddField("class", "students", "studentprofile", FALSE, "")

\* The operations with class.students added before StudentProfile is created.
operationsStudentsFirst ==
    <<CreateClass,
      RenameField("contact", "name", "internal_name"),
      RemoveField("contact", "event_type"),
      RemoveField("contact", "position"),
      RemoveField("contact", "resources"),
      RemoveField("organization", "industry"),
      AddField("contact", "company_position", "", TRUE, ""),
      AddField("contact", "notes", "", TRUE, ""),
      AddCategory,
      AlterField("contact", "industry"),
      RemoveField("organization", "resources"),
      AddClassStudents,
      CreateStudentProfile,
      CreateResource,
      AddField("class", "teacher", "user", TRUE, ""),
      AddField("organization", "resources", "resource", FALSE, "")>>

\* Migration.operations of 0004, in their listed order.
operations ==
    <<CreateClass,
      RenameField("contact", "name", "internal_name"),
      RemoveField("contact", "event_type"),
      RemoveField("contact", "position"),
      RemoveField("contact", "resources"),
      RemoveField("organization", "industry"),
      AddField("contact", "company_position", "", TRUE, ""),
      AddField("contact", "notes", "", TRUE, ""),
      AddCategory,
      AlterField("contact", "industry"),
      RemoveField("organization", "resources"),
      CreateStudentProfile,
      CreateResource,
      AddClassStudents,
      AddField("class", "teacher", "user", TRUE, ""),
      AddField("organization", "resources", "resource", FALSE, "")>>

\* Some of the choices of organization.category, among them the only one
\* that differs from the default by nothing but case.
CategoryChoices ==
    {"Professional sports league", "Venture capital firm", "Startup",
     "Talent agency", "Trade union", "Credit union"}

\* Can the operation be applied to the schema?  What it names must exist and
\* what it adds must not.
Applicable(op, sch) ==
    CASE op.op = "CreateModel" ->
           /\ ~HasModel(sch, op.model)
           /\ \A p \in op.fields : p[2] = "" \/ p[2] = op.model \/ HasModel(sch, p[2])
      [] op.op = "AddField" ->
           /\ HasModel(sch, op.model)
           /\ ~HasField(sch, op.model, op.name)
           /\ op.to = "" \/ HasModel(sch, op.to)
      [] op.op = "RenameField" ->
           HasField(sch, op.model, op.name) /\ ~HasField(sch, op.model, op.new)
      [] OTHER -> HasField(sch, op.model, op.name)

\* The schema after the operation.
Apply(op, sch) ==
    CASE op.op = "CreateModel" ->
           sch \cup {Field(op.model, p[1], p[2]) : p \in op.fields}
      [] op.op = "AddField" -> sch \cup {Field(op.model, op.name, op.to)}
      [] op.op = "RemoveField" ->
           {f \in sch : ~(f.model = op.model /\ f.field = op.name)}
      [] op.op = "RenameField" ->
           {IF f.model = op.model /\ f.field = op.name
            THEN Field(f.model, op.new, f.to) ELSE f : f \in sch}
      [] OTHER -> sch

\* The columns of an organization row after the operation: a removed column
\* goes, a renamed one keeps its value, an added one is filled with the
\* operation's default.
ApplyToCols(op, cols) ==
    IF op.model # "organization" THEN cols
    ELSE CASE op.op = "RemoveField" -> {c \in cols : c[1] # op.name}
           [] op.op = "RenameField" ->
                {IF c[1] = op.name THEN <<op.new, c[2]>> ELSE c : c \in cols}
           [] op.op = "AddField" /\ op.column -> cols \cup {<<op.name, op.default>>}
           [] OTHER -> cols

OrgNames == {"Acme", "Bolt"}

Industries == {"Tech", "Retail"}

MigrationInit ==
    /\ applied = 0
    /\ schema = SchemaAfter0003
    /\ orgRows = <<>>
    /\ migrationError = "none"

\* An Organization is stored while the schema is the one of migration 0003.
OrgInsertBefore(n, i) ==
    /\ applied = 0
    /\ Len(orgRows) < MaxRows
    /\ orgRows' = Append(orgRows, [pk |-> Len(orgRows) + 1, before |-> TRUE,
                                   cols |-> {<<"name", n>>, <<"industry", i>>}])
    /\ UNCHANGED <<applied, schema, migrationError>>
    /\ UNCHANGED classVars
    /\ UNCHANGED <<appVars, fieldVars, cascadeVars>>

\* migrate applies the next operation of 0004 to the schema and to the rows;
\* an operation that cannot be applied stops the migration.
Migrate ==
    /\ migrationError = "none"
    /\ applied < Len(operations)
    /\ LET op == operations[applied + 1]
       IN IF Applicable(op, schema)
          THEN /\ applied' = applied + 1
               /\ schema' = Apply(op, schema)
               /\ orgRows' = [i \in DOMAIN orgRows |->
                                [orgRows[i] EXCEPT !.cols = ApplyToCols(op, @)]]
               /\ UNCHANGED migrationError
          ELSE /\ migrationError' = op.op
               /\ UNCHANGED <<applied, schema, orgRows>>
    /\ UNCHANGED classVars
    /\ UNCHANGED <<appVars, fieldVars, cascadeVars>>

\* An Organization form is submitted once the migration is through: the
\* category is one of the choices.
OrgFormCreate(n, c) ==
    /\ applied = Len(operations)
    /\ migrationError = "none"
    /\ Len(orgRows) < MaxRows
    /\ c \in CategoryChoices
    /\ orgRows' = Append(orgRows, [pk |-> Len(orgRows) + 1, before |-> FALSE,
                                   cols |-> {<<"name", n>>, <<"category", c>>}])
    /\ UNCHANGED <<applied, schema, migrationError>>
    /\ UNCHANGED classVars
    /\ UNCHANGED <<appVars, fieldVars, cascadeVars>>

MigrationNext ==
    \/ \E n \in OrgNames, i \in Industries : OrgInsertBefore(n, i)
    \/ Migrate
    \/ \E n \in OrgNames, c \in {"Startup", "Credit union"} : OrgFormCreate(n, c)

\* ------------------------------------------------------------ specifications
vars == <<slugVars, eventVars, viewVars, dataVars>>

Init ==
    /\ SlugInit /\ EventInit /\ ViewInit /\ FieldInit /\ CascadeInit
    /\ ClassInit /\ MigrationInit

\* One request at a time: every save() runs to its end before the next
\* operation starts.
Main == "r1"

Next ==
    \/ \E n \in Names, s \in CtorSlugs : New(Main, n, s)
    \/ \E id \in 1..MaxId : Load(Main, id)
    \/ \E n \in Names : Rename(Main, n)
    \/ SaveBegin(Main)
    \/ SaveRejected(Main)
    \/ SaveInsert(Main)
    \/ SaveUpdate(Main)
    \/ FormInvalid(Main)
    \/ Tick

Spec == Init /\ [][Next]_vars

RaceNames == {AcmeInc, AcmeAlt, Punct}

\* Two requests whose steps interleave freely.
RaceNext ==
    \/ \E r \in Requests, n \in RaceNames : New(r, n, None)
    \/ \E r \in Requests, id \in 1..MaxId : Load(r, id)
    \/ \E r \in Requests, n \in RaceNames : Rename(r, n)
    \/ \E r \in Requests : SaveBegin(r)
    \/ \E r \in Requests : SaveRejected(r)
    \/ \E r \in Requests : SaveInsert(r)
    \/ \E r \in Requests : SaveUpdate(r)

RaceSpec == Init /\ [][RaceNext]_vars

EventSpec == Init /\ [][EventNext]_vars

ViewSpec == Init /\ [][ViewNext]_vars

ContactSpec == Init /\ [][ContactNext]_vars

UserSpec == Init /\ [][UserNext]_vars

ProfileSpec == Init /\ [][ProfileNext]_vars

CascadeSpec == Init /\ [][CascadeNext]_vars

ClassSpec == Init /\ [][ClassNext]_vars

MigrationSpec == Init /\ [][MigrationNext]_vars

\* ------------------------------------------------------------------ claims
AcmeSlug == <<"a", "c", "m", "e", "-", "i", "n", "c">>

\* The characters of a lowercase ASCII slug.
SlugChars == {"a", "c", "e", "i", "m", "n", "x", "-"}

\* Lowercase, hyphen-separated ASCII text: only lowercase letters and single
\* hyphens, no hyphen at either end.
IsSlugText(s) ==
    /\ \A i \in DOMAIN s : s[i] \in SlugChars
    /\ \A i \in DOMAIN s : s[i] = "-" => i \notin {1, Len(s)} /\ s[i + 1] # "-"

\* C1: the slug of every stored Organization equals the slug it got at its
\* first save, whatever renames and saves followed.
C1_SlugFrozenAfterCreation ==
    kind = "Organization" =>
        \A id \in DOMAIN table : table[id].slug = firstSlug[id]

\* C2: when a new record (no id, no slug) has just been saved for the first
\* time, its stored slug is slugify of its name (title), a lowercase
\* hyphen-separated ASCII text; for Organization and Announcement alike.
C2_FirstSaveSlugifiesName ==
    \A r \in Requests :
        (/\ pc[r] = "done" /\ outcome[r] = "ok"
         /\ attempt[r].insert /\ ~attempt[r].hadSlug)
        => /\ inst[r].id \in DOMAIN table
           /\ table[inst[r].id].slug = slugify(table[inst[r].id].name)
           /\ IsSlugText(table[inst[r].id].slug)

C2_Witness ==
    \E r \in Requests :
        /\ pc[r] = "done" /\ outcome[r] = "ok"
        /\ attempt[r].insert /\ ~attempt[r].hadSlug
        /\ kind = "Announcement"
        /\ table[inst[r].id].name = Axe
        /\ table[inst[r].id].slug = <<"a", "x", "e">>

\* C3: "Acme Inc" saved as a new Organization while no row holds acme-inc
\* is stored with slug acme-inc; saved while a row holds it, the save fails
\* with a uniqueness error, the instance gets no id and keeps the slug
\* acme-inc without any suffix, and the first row stays the only one.
C3_SecondAcmeRejected ==
    /\ slugify(AcmeInc) = AcmeSlug
    /\ \A id \in DOMAIN table : table[id].slug \in {slugify(n) : n \in Names}
    /\ \A r \in Requests :
          (/\ kind = "Organization" /\ pc[r] = "done"
           /\ attempt[r].insert /\ inst[r].slug = AcmeSlug)
          => /\ Cardinality(RowsWithSlug(AcmeSlug)) = 1
             /\ IF attempt[r].free
                THEN outcome[r] = "ok" /\ RowsWithSlug(AcmeSlug) = {inst[r].id}
                ELSE outcome[r] = "IntegrityError" /\ inst[r].id = 0

C3_Witness ==
    \E r \in Requests :
        /\ kind = "Organization" /\ pc[r] = "done"
        /\ attempt[r].insert /\ ~attempt[r].free
        /\ inst[r].name = AcmeInc /\ inst[r].slug = AcmeSlug
        /\ outcome[r] = "IntegrityError"
        /\ \E id \in DOMAIN table :
              table[id].name = AcmeInc /\ table[id].slug = AcmeSlug

\* C4: no two stored rows of a class (Organization, Announcement) have the
\* same slug, also when their names differ but slugify to the same text.
C4_NoDuplicateSlugs ==
    \A i, j \in DOMAIN table : i # j => table[i].slug # table[j].slug

C4_Witness ==
    /\ Len(table) = MaxId
    /\ \E r \in Requests, id \in DOMAIN table :
          /\ outcome[r] = "IntegrityError"
          /\ table[id].slug = inst[r].slug
          /\ table[id].name # inst[r].name
          /\ slugify(table[id].name) = slugify(inst[r].name)

\* Two requests whose save() calls of new records overlapped in time, both
\* computing the same slug, which no row held when either began.
Raced(r, q) ==
    /\ r # q
    /\ attempt[r].insert /\ attempt[q].insert
    /\ q \in attempt[r].overlap /\ r \in attempt[q].overlap
    /\ attempt[r].free /\ attempt[q].free
    /\ inst[r].slug = inst[q].slug

\* C5: when two requests concurrently save new records with the same slug,
\* then in every interleaving, once both saves have ended, exactly one was
\* persisted and the other was rejected by the unique index and left
\* without id (it is not saved again); two rows never share a slug.
C5_RaceHasOneWinner ==
    /\ \A i \in DOMAIN table :
          Cardinality(RowsWithSlug(table[i].slug)) = 1
    /\ \A r, q \in Requests :
          (Raced(r, q) /\ pc[r] = "done" /\ pc[q] = "done")
          => /\ {outcome[r], outcome[q]} = {"ok", "IntegrityError"}
             /\ \A w \in {r, q} :
                   IF outcome[w] = "ok"
                   THEN RowsWithSlug(inst[w].slug) = {inst[w].id}
                   ELSE inst[w].id = 0

C5_Witness ==
    \E r, q \in Requests :
        /\ Raced(r, q) /\ pc[r] = "done" /\ pc[q] = "done"
        /\ inst[r].name # inst[q].name
        /\ outcome[r] = "IntegrityError" /\ outcome[q] = "ok"

\* The last join/leave call.
LastCall == calls[Len(calls)]

\* C6: when a user's join call repeats an earlier join call of that user on
\* the same event, the user is in the event's attendee set exactly once
\* afterwards, and if no leave came in between the second join changed
\* nothing in the relation table.
C6_JoinTwiceCountsOnce ==
    \A i \in DOMAIN calls :
        (i < Len(calls) /\ LastCall.op = "join" /\ calls[i] = LastCall)
        => /\ Membership(attendees, LastCall.event, LastCall.user) = 1
           /\ (\A j \in (i + 1)..(Len(calls) - 1) :
                  calls[j] # [LastCall EXCEPT !.op = "leave"])
              => attendees = prevAttendees

C6_Witness ==
    /\ Len(calls) = 2
    /\ calls[1] = calls[2] /\ calls[2].op = "join"
    /\ attendees = <<[event |-> calls[2].event, user |-> calls[2].user]>>
    /\ prevAttendees = attendees

\* C7: a leave call by a user who is not among the event's attendees
\* succeeds and changes nothing: not the relation table, nor any record,
\* session or stored user.
C7_LeaveWithoutJoinChangesNothing ==
    [][\A u \in UserIds, e \in EventIds :
          (/\ calls' = Append(calls, [op |-> "leave", user |-> u, event |-> e])
           /\ Membership(attendees, e, u) = 0)
          => /\ evResponse' = "ok"
             /\ attendees' = attendees
             /\ UNCHANGED <<slugVars, viewVars>>]_vars

C7_Witness ==
    /\ calls # <<>> /\ LastCall.op = "leave"
    /\ Membership(prevAttendees, LastCall.event, LastCall.user) = 0
    /\ \E i \in DOMAIN prevAttendees : prevAttendees[i].event = LastCall.event
    /\ attendees = prevAttendees
    /\ evResponse = "ok"

\* "/users/<pk>/" as a sequence of segments.
DetailUrl(id) == <<"users", PkText(id), "">>

\* C8: the success URL of the self-update view is /users/<pk>/ with pk the
\* id of the requesting user: a successful update redirects there.
C8_SuccessUrlIsOwnDetailPage ==
    /\ \A u \in UserIds : get_success_url([NoRequest EXCEPT !.user = u]) = DetailUrl(u)
    /\ (request.view = "update" /\ response.status = "302")
       => response.location = DetailUrl(request.user)

C8_Witness ==
    /\ request.view = "update" /\ response.status = "302"
    /\ request.user = MaxUser
    /\ response.location = <<"users", PkText(MaxUser), "">>

\* C9: every form_valid call of the self-update view appends exactly one
\* notification, "Information successfully updated", to the requesting
\* user's queue and none to another queue; on a queue that held none
\* before the call it is the only one.
C9_OneSuccessNotification ==
    [][(request.stage = "form" /\ response'.status = "302")
       => /\ messages'[request.user] =
                Append(messages[request.user], "Information successfully updated")
          /\ \A v \in UserIds \ {request.user} : messages'[v] = messages[v]
          /\ messages[request.user] = <<>>
             => messages'[request.user] = <<"Information successfully updated">>]_vars

C9_Witness ==
    /\ request.view = "update" /\ response.status = "302"
    /\ messages[request.user] = <<"Information successfully updated">>

\* C10: the self-update view works on the requesting user: the object it
\* loads is request.user, the ~update/ route has no parameter, and so no
\* request reaches the view with an id in its keyword arguments.
C10_UpdateEditsRequester ==
    /\ \A i \in DOMAIN urlpatterns :
          urlpatterns[i].name = "update"
          => \A j \in DOMAIN urlpatterns[i].route :
                urlpatterns[i].route[j] \notin {IntParam, SlugParam}
    /\ request.view = "update"
       => /\ request.kwargs = {}
          /\ request.object = request.user

C10_Witness ==
    /\ request.view = "update" /\ response.status = "302"
    /\ request.user = MaxUser /\ request.object = MaxUser
    /\ users[MaxUser] = "Bob"
    /\ \A v \in UserIds \ {MaxUser} : users[v] = "Ann"

\* A step in which request r enters save() or ends a save or a form
\* submission with an error.
FailingOrEntering(r) ==
    \/ pc[r] # "saving" /\ pc'[r] = "saving"
    \/ /\ outcome'[r] \in {"IntegrityError", "ValidationError"}
       /\ <<pc[r], outcome[r]>> # <<pc'[r], outcome'[r]>>

\* C12: a save that fails, by a validation failure of the form or by a
\* uniqueness violation, leaves the stored rows as they were before the
\* request: neither entering save() nor its failure writes anything.
C12_FailedSaveWritesNothing ==
    [][\A r \in Requests :
          FailingOrEntering(r) => table' = table /\ nextId' = nextId]_vars

C12_Witness ==
    \E r \in Requests :
        /\ pc[r] = "done" /\ outcome[r] = "IntegrityError"
        /\ inst[r].id \in DOMAIN table
        /\ table[inst[r].id].name # inst[r].name
        /\ table[inst[r].id].slug # inst[r].slug

\* C18: an Announcement's slug is slugify of its title as first saved and
\* its date_posted is the time of its creation, and no later save changes
\* either of them.
C18_AnnouncementSlugAndDateFrozen ==
    [][kind = "Announcement"
       => /\ \A id \in DOMAIN table :
                /\ table'[id].slug = table[id].slug
                /\ table'[id].date = table[id].date
          /\ \A id \in DOMAIN table' \ DOMAIN table :
                /\ table'[id].slug = slugify(table'[id].name)
                /\ table'[id].date = clock]_vars

\* The date_posted half of C18 alone.
DatePostedFrozen ==
    [][kind = "Announcement"
       => /\ \A id \in DOMAIN table : table'[id].date = table[id].date
          /\ \A id \in DOMAIN table' \ DOMAIN table : table'[id].date = clock]_vars

\* Request r enters save().
EntersSave(r) == pc[r] \in {"idle", "done"} /\ pc'[r] = "saving"

C11_RedirectToOwnDetailPage ==
    /\ \A u \in UserIds :
          /\ get_redirect_url([NoRequest EXCEPT !.user = u]) = DetailUrl(u)
          /\ get_absolute_url(u) = DetailUrl(u)
          /\ Resolve(DetailUrl(u)) = [name |-> "detail", kwargs |-> {<<"pk", PkText(u)>>}]
    /\ request.view = "redirect"
       => /\ response.status = "302"
          /\ response.location = DetailUrl(request.user)
          /\ Resolve(response.location).name = "detail"

C11_Witness ==
    /\ request.view = "redirect"
    /\ request.user = MaxUser
    /\ response.location = <<"users", PkText(MaxUser), "">>

\* The stored value satisfies the phone number rule: blank or phone_regex.
PhoneOk(s) == s = <<>> \/ phone_regex(s)

\* C13: in every reachable state every stored Contact has a phone_number
\* that is empty or matches ^\+?1?\d{9,15}$, whether a form submission or a
\* direct save wrote it.
C13_AllPhonesValid ==
    \A i \in DOMAIN contactRows : PhoneOk(contactRows[i].phone_number)

\* C13, amended: every stored Contact last written through a validated form
\* has a phone_number that is empty or matches the pattern, and a form that
\* fails validation writes nothing valid or invalid; a direct save is not
\* validated.
C13_FormWrittenPhonesValid ==
    /\ \A i \in DOMAIN contactRows :
          contactRows[i].validated => PhoneOk(contactRows[i].phone_number)
    /\ contactLast.path = "form"
       => (contactLast.outcome = "saved") = PhoneOk(contactLast.value)

C13_Witness ==
    /\ \E i \in DOMAIN contactRows :
          /\ contactRows[i].validated
          /\ contactRows[i].phone_number = <<"+", "1">> \o Rep("5", PhoneMaxDigits)
    /\ \E i \in DOMAIN contactRows :
          /\ ~contactRows[i].validated
          /\ ~PhoneOk(contactRows[i].phone_number)
    /\ contactLast.outcome = "ValidationError"

\* Is the flag a field of the stored row, and true?
FlagTrue(row, flag) == flag \in DOMAIN row /\ row[flag]

\* C14: in every reachable state every stored User has exactly one of
\* is_student and is_teacher true.
C14_ExactlyOneRoleFlag ==
    \A i \in DOMAIN userRows :
        FlagTrue(userRows[i], "is_student") # FlagTrue(userRows[i], "is_teacher")

\* C15: in every reachable state no two StudentProfiles have the same
\* student_id and every stored student_id is exactly 9 characters long.
C15_StudentIdUniqueAndNineChars ==
    /\ \A i, j \in DOMAIN profileRows :
          i # j => profileRows[i].student_id # profileRows[j].student_id
    /\ \A i \in DOMAIN profileRows :
          Len(profileRows[i].student_id) = StudentIdMaxLength

\* The uniqueness half of C15.
StudentIdsUnique ==
    \A i, j \in DOMAIN profileRows :
        i # j => profileRows[i].student_id # profileRows[j].student_id

\* C16: in every reachable state no two Users have the same email, and a
\* create or update of a User to an email another User holds fails the entire
\* save: IntegrityError, and no row is written.
C16_EmailsUnique ==
    [][/\ \A i, j \in DOMAIN userRows' :
             i # j => userRows'[i].email # userRows'[j].email
       /\ userLast' # userLast
          => IF \E i \in DOMAIN userRows :
                    i # userLast'.id /\ userRows[i].email = userLast'.value
             THEN userLast'.outcome = "IntegrityError" /\ userRows' = userRows
             ELSE userLast'.outcome = "saved"]_vars

C16_Witness ==
    /\ userLast.outcome = "IntegrityError"
    /\ userLast.id \in DOMAIN userRows
    /\ userRows[userLast.id].email # userLast.value
    /\ \E i \in DOMAIN userRows : userRows[i].email = userLast.value

\* C17: after any sequence of creates and deletes no stored row references a
\* deleted owner: every non-null foreign key names a stored row, so deleting
\* an Organization took its Announcements and Events, and deleting a User
\* its Classes, StudentProfiles and Contacts.
C17_NoDanglingReference ==
    /\ \A r \in db : \A k \in KeysOf(r.model) :
          Ref(r, k.field) # 0
          => \E t \in db : t.model = k.to /\ t.pk = Ref(r, k.field)
    /\ \A r \in db : \A k \in KeysOf(r.model) :
          ~(k.to = lastDelete.model /\ Ref(r, k.field) = lastDelete.pk)

C17_Witness ==
    /\ lastDelete.model = "User"
    /\ \E c, p, t \in lastDelete.collected :
          /\ c.model = "Class" /\ Ref(c, "teacher") = lastDelete.pk
          /\ p.model = "StudentProfile" /\ Ref(p, "user") = lastDelete.pk
          /\ t.model = "Contact" /\ Ref(t, "user") = lastDelete.pk

\* C20: deleting a User also deletes the StudentProfiles of other users whose
\* guidance_counselor is that user and, through Contact, those whose
\* parental_contact is a Contact of that user; no row is rewritten with a
\* null reference.
C20_DeleteUserTakesOthersProfiles ==
    [][\A u \in db :
          u.model = "User" /\ u \notin db'
          => /\ db' \subseteq db
             /\ \A p \in db :
                   /\ p.model = "StudentProfile"
                   /\ \/ Ref(p, "guidance_counselor") = u.pk
                      \/ \E c \in db : /\ c.model = "Contact"
                                       /\ Ref(c, "user") = u.pk
                                       /\ Ref(p, "parental_contact") = c.pk
                   => ~\E q \in db' : q.model = "StudentProfile" /\ q.pk = p.pk]_vars

C20_Witness ==
    /\ lastDelete.model = "User"
    /\ \E p, c \in lastDelete.collected :
          /\ p.model = "StudentProfile"
          /\ Ref(p, "user") # lastDelete.pk
          /\ Ref(p, "guidance_counselor") # lastDelete.pk
          /\ c.model = "Contact"
          /\ Ref(c, "user") = lastDelete.pk
          /\ Ref(p, "parental_contact") = c.pk
    /\ \E u \in db : u.model = "User"

\* The number of digits in a text.
DigitCount(s) == Cardinality({i \in DOMAIN s : s[i] \in Digits})

\* C21: every phone_number the Contact phone validator accepts has at most
\* 15 digits, as its message says ("Up to 15 digits allowed"), and at least 9.
C21_AcceptedPhoneHasNineToFifteenDigits ==
    (/\ contactLast.path = "form"
     /\ contactLast.outcome = "saved"
     /\ contactLast.value # <<>>)
    => DigitCount(contactLast.value) \in PhoneMinDigits..PhoneMaxDigits

\* The lower half of C21: an accepted phone_number has at least 9 digits.
AcceptedPhoneHasMinDigits ==
    (/\ contactLast.path = "form"
     /\ contactLast.outcome = "saved"
     /\ contactLast.value # <<>>)
    => DigitCount(contactLast.value) >= PhoneMinDigits

\* The <slug:slug> path converter, [-a-zA-Z0-9_]+ : a non-empty text of
\* ASCII letters, digits, hyphens and underscores.
SlugConverterMatches(s) ==
    /\ s # <<>>
    /\ \A i \in DOMAIN s : s[i] \in AllowedChars \cup {"_"}

\* C22: every persisted Organization and Announcement, whatever its name or
\* title, has a non-empty slug of characters the <slug:slug> converter
\* accepts, so that organizations/<slug>/ and announcement/<slug>/ match it.
C22_StoredSlugMatchesConverter ==
    \A id \in DOMAIN table : SlugConverterMatches(table[id].slug)

\* C25: in every reachable state each User has at most one StudentProfile; a
\* second StudentProfile for a user who has one is rejected.
C25_OneStudentProfilePerUser ==
    \A u \in db :
        u.model = "User"
        => Cardinality({p \in db : /\ p.model = "StudentProfile"
                                   /\ Ref(p, "user") = u.pk}) <= 1

\* The value of a column of a row; "" when the row has no such column.
Col(row, n) ==
    IF \E c \in row.cols : c[1] = n THEN (CHOOSE c \in row.cols : c[1] = n)[2] ELSE ""

\* C23: after migration 0004 is applied, every Organization row that existed
\* before it has a category that is one of the choices that the AddField
\* step declares.
C23_MigratedCategoryIsAChoice ==
    applied = Len(operations)
    => \A i \in DOMAIN orgRows :
          orgRows[i].before => Col(orgRows[i], "category") \in CategoryChoices

\* Rows created through the form after the migration have a category among
\* the choices.
NewCategoryIsAChoice ==
    \A i \in DOMAIN orgRows :
        ~orgRows[i].before => Col(orgRows[i], "category") \in CategoryChoices

\* C24: applied in their listed order after 0003, every operation of 0004
\* names only models and fields that exist at that step: the migration never
\* stops, every field belongs to a created model, every relation points to a
\* created model, no field exists twice, and organization.resources points
\* to Resource only after the old field went.
C24_StepsReferToWhatExists ==
    /\ migrationError = "none"
    /\ \A f \in schema : HasModel(schema, f.model)
    /\ \A f \in schema : f.to # "" => HasModel(schema, f.to)
    /\ \A f, g \in schema : f.model = g.model /\ f.field = g.field => f = g
    /\ \A i, j \in DOMAIN operations :
          /\ operations[i].op = "AddField"
          /\ operations[i].to \in {"class", "studentprofile", "resource"}
          /\ operations[j].op = "CreateModel"
          /\ operations[j].model = operations[i].to
          => j < i
    /\ \A i \in DOMAIN operations :
          /\ operations[i].op = "AddField"
          /\ HasField(SchemaAfter0003, operations[i].model, operations[i].name)
          => \E j \in 1..(i - 1) :
                /\ operations[j].op = "RemoveField"
                /\ operations[j].model = operations[i].model
                /\ operations[j].name = operations[i].name

C24_Witness ==
    /\ applied = Len(operations)
    /\ migrationError = "none"
    /\ Field("organization", "resources", "resource") \in schema
    /\ Field("class", "students", "studentprofile") \in schema
    /\ Field("studentprofile", "classes_taken", "class") \in schema
    /\ Field("contact", "internal_name", "") \in schema
    /\ orgRows # <<>>

\* C26: every value accepted for Class.grade_level is one of 9, 10, 11, 12:
\* no stored Class has a grade_level outside that set.
C26_StoredGradeLevelIsAChoice ==
    \A i \in DOMAIN classRows : classRows[i].grade_level \in {9, 10, 11, 12}

\* C26, amended: every Class last written through a validated form has a
\* grade_level among 9, 10, 11, 12, and a form submitting any other value is
\* rejected; a direct save is not checked against the choices.
C26_FormWrittenGradeLevelIsAChoice ==
    /\ \A i \in DOMAIN classRows :
          classRows[i].validated => classRows[i].grade_level \in {9, 10, 11, 12}
    /\ classLast.path = "form"
       => (classLast.outcome = "saved") = (classLast.value \in {9, 10, 11, 12})

C26_Witness ==
    /\ \E i \in DOMAIN classRows :
          classRows[i].validated /\ classRows[i].grade_level = 12
    /\ \E i \in DOMAIN classRows :
          ~classRows[i].validated /\ classRows[i].grade_level = 13
    /\ classLast.path = "form"
    /\ classLast.outcome = "ValidationError"
    /\ classLast.value = 13

====
